---- MODULE Spec2Model ----
(***************************************************************************)
(* A model of src/gmail.py: the credential acquisition of                  *)
(* get_gmail_service / get_calendar_service, the six tool operations, the  *)
(* message normalisation repeated in the three listing tools, and          *)
(* create_message_with_attachments.                                        *)
(*                                                                         *)
(* Four specifications share the module:                                   *)
(*   Spec      one tool invocation at a time (the synchronous server)      *)
(*   SpecNorm  the normalisation of one fetched message (pure function)    *)
(*   SpecEnc   create_message_with_attachments on readable files (pure)    *)
(*   SpecRace  two concurrent credential acquisitions on one token file    *)
(***************************************************************************)
EXTENDS Integers, Sequences, FiniteSets, TLC

VARIABLES
    \* ---- the token file and the environment
    store,          \* content of token.pickle
    expiredToks,    \* access tokens whose expiry time has passed
    nextTok,        \* next access token the authorization server issues
    \* ---- Spec: the invocation in flight
    pc,             \* position inside the tool function
    tool,           \* tool being served
    creds,          \* local `creds` of get_*_service
    service,        \* the built client handle
    ids,            \* identifiers returned by the list call
    idx,            \* position of the `for msg in ...` loop
    messages,       \* local `messages`
    fetched,        \* the messages the detail calls returned, in order
    attachments,    \* parameter `attachments` of send_email
    exc,            \* exception in flight
    result,         \* what the last invocation returned
    log,            \* external calls of the invocation, in order
    \* ---- SpecNorm
    nmsg, nrec, npc,
    \* ---- SpecEnc
    eto, esubject, ebody, efiles, eraw, epc,
    \* ---- SpecRace
    rpc, rkind, rcreds, rloaded, lastWriter

envVars  == <<store, expiredToks, nextTok>>
mainVars == <<pc, tool, creds, service, ids, idx, messages, fetched, attachments, exc, result, log>>
normVars == <<nmsg, nrec, npc>>
encVars  == <<eto, esubject, ebody, efiles, eraw, epc>>
raceVars == <<rpc, rkind, rcreds, rloaded, lastWriter>>
vars     == <<envVars, mainVars, normVars, encVars, raceVars>>

(***************************************************************************)
(* Bounds                                                                  *)
(***************************************************************************)
MaxParts   == 2     \* parts in a fetched message (SpecNorm)
MaxHeaders == 1     \* headers in a fetched message (SpecNorm)
MaxList    == 2     \* identifiers a list call returns (Spec)
MaxAttach  == 2     \* attachment paths of one send_email (Spec, SpecEnc)
MaxTok     == 2     \* access tokens the authorization server issues

(***************************************************************************)
(* base64 / base64url.  A character is its sextet 0..63, the padding      *)
(* character '=' or a character outside the alphabet.                      *)
(***************************************************************************)
PAD  == 64
JUNK == 65
ReplacementChar == 65533

OkBytes(bs)  == [ok |-> TRUE,  bytes |-> bs,   cause |-> ""]
ErrBytes(c)  == [ok |-> FALSE, bytes |-> <<>>, cause |-> c]

\* binascii.a2b_base64 in its default, non-strict mode: characters outside
\* the alphabet are skipped, decoding stops at sufficient padding, and a
\* quad left open at the end of input is an error.
RECURSIVE A2B(_, _, _, _, _, _)
A2B(s, k, quad, pads, left, out) ==
    IF k > Len(s)
    THEN IF quad = 0 THEN OkBytes(out)
         ELSE IF quad = 1 THEN ErrBytes("Invalid base64-encoded string")
         ELSE ErrBytes("Incorrect padding")
    ELSE LET c == s[k] IN
         IF c = PAD
         THEN IF quad >= 2 /\ quad + pads + 1 >= 4
              THEN OkBytes(out)
              ELSE A2B(s, k + 1, quad, IF quad >= 2 THEN pads + 1 ELSE pads, left, out)
         ELSE IF c >= 64
         THEN A2B(s, k + 1, quad, pads, left, out)
         ELSE CASE quad = 0 -> A2B(s, k + 1, 1, 0, c, out)
                [] quad = 1 -> A2B(s, k + 1, 2, 0, c % 16,
                                   Append(out, left * 4 + (c \div 16)))
                [] quad = 2 -> A2B(s, k + 1, 3, 0, c % 4,
                                   Append(out, left * 16 + (c \div 4)))
                [] OTHER    -> A2B(s, k + 1, 0, 0, 0,
                                   Append(out, left * 64 + c))

urlsafe_b64decode(s) == A2B(s, 1, 0, 0, 0, <<>>)

\* binascii.b2a_base64: three bytes to four sextets, the tail padded with '='.
RECURSIVE B2A(_, _)
B2A(bs, k) ==
    LET n == Len(bs) - k + 1 IN
    IF n <= 0 THEN <<>>
    ELSE IF n = 1
    THEN << bs[k] \div 4, (bs[k] % 4) * 16, PAD, PAD >>
    ELSE IF n = 2
    THEN << bs[k] \div 4, (bs[k] % 4) * 16 + (bs[k+1] \div 16),
            (bs[k+1] % 16) * 4, PAD >>
    ELSE << bs[k] \div 4, (bs[k] % 4) * 16 + (bs[k+1] \div 16),
            (bs[k+1] % 16) * 4 + (bs[k+2] \div 64), bs[k+2] % 64 >>
         \o B2A(bs, k + 3)

\* an encoder that leaves the padding off
urlsafe_b64encode_unpadded(bs) == SelectSeq(B2A(bs, 1), LAMBDA c : c # PAD)

\* base64.urlsafe_b64encode: b2a_base64 with '+' and '/' exchanged for '-'
\* and '_' (the sextets are the same), padding kept.
urlsafe_b64encode(bs) == B2A(bs, 1)

\* bytes.decode('utf-8', errors='replace') on ASCII bytes and on bytes that
\* start no valid UTF-8 sequence (every byte >= 128 of the inputs below is
\* such a byte): each of the latter becomes U+FFFD.
Utf8Replace(bs) ==
    [i \in 1..Len(bs) |-> IF bs[i] < 128 THEN bs[i] ELSE ReplacementChar]

(***************************************************************************)
(* The fetched message and its normalisation (the loop body of             *)
(* get_inbox_emails, search_emails and get_sent_emails).                   *)
(***************************************************************************)
Missing     == "<missing>"          \* the key is not in the dict
Undecodable == "<lone surrogate>"   \* a str whose .encode('utf-8') raises

DataHi     == urlsafe_b64encode(<<72, 105>>)        \* "SGk="
DataOK     == urlsafe_b64encode(<<79, 75, 33>>)     \* "T0sh"
DataBadPad == <<18, 6>>                              \* "SG"
DataJunk   == <<JUNK>> \o DataOK                     \* "!T0sh"
DataSet    == {DataHi, DataOK, DataBadPad, DataJunk}

\* a body object: {'data': ...} or one without the key
BodySet    == {[has |-> FALSE, data |-> <<>>]} \cup {[has |-> TRUE, data |-> d] : d \in DataSet}
TopBodySet == {[has |-> FALSE, data |-> <<>>], [has |-> TRUE, data |-> DataHi]}
PartSet    == [mimeType : {"text/plain", "text/html"}, body : BodySet]
HeaderSet  == [name : {"From", Missing}, value : {"alice", Undecodable, Missing}]

SeqsUpTo(S, n) == UNION {[1..k -> S] : k \in 0..n}

\* payloads: without 'parts' (with or without 'body'), or with a parts list
PayloadSet(maxParts) ==
    [hasParts : {FALSE}, parts : {<<>>}, hasBody : {FALSE}, body : {[has |-> FALSE, data |-> <<>>]}]
    \cup [hasParts : {FALSE}, parts : {<<>>}, hasBody : {TRUE}, body : BodySet]
    \cup [hasParts : {TRUE}, parts : SeqsUpTo(PartSet, maxParts), hasBody : {TRUE}, body : TopBodySet]

RawMessage(id, hs, p) == [id |-> id, headers |-> hs, payload |-> p]

Text(cs)        == [kind |-> "text", text |-> cs, cause |-> ""]
Placeholder(c)  == [kind |-> "placeholder", text |-> <<>>, cause |-> c]

\* base64.urlsafe_b64decode(x['body']['data']) then .decode('utf-8',
\* errors='replace'), inside the try of the body extraction
DecodeBody(b) ==
    IF ~b.has THEN Placeholder("KeyError: 'data'")
    ELSE LET r == urlsafe_b64decode(b.data) IN
         IF r.ok THEN Text(Utf8Replace(r.bytes)) ELSE Placeholder(r.cause)

\* a scan without the break: every text/plain part is decoded in turn and
\* the last one stands
RECURSIVE ScanOn(_, _, _)
ScanOn(parts, k, body) ==
    IF k > Len(parts) THEN body
    ELSE IF parts[k].mimeType = "text/plain"
    THEN LET d == DecodeBody(parts[k].body) IN
         IF d.kind = "placeholder" THEN d ELSE ScanOn(parts, k + 1, d)
    ELSE ScanOn(parts, k + 1, body)

ScanPartsNoBreak(parts, k) == ScanOn(parts, k, [kind |-> "text", text |-> <<>>, cause |-> ""])

\* for part in parts: if part['mimeType'] == 'text/plain': decode; break
RECURSIVE ScanParts(_, _)
ScanParts(parts, k) ==
    IF k > Len(parts) THEN Text(<<>>)
    ELSE IF parts[k].mimeType = "text/plain"
    THEN DecodeBody(parts[k].body)
    ELSE ScanParts(parts, k + 1)

ExtractBody(p) ==
    IF p.hasParts THEN ScanParts(p.parts, 1)
    ELSE IF p.hasBody THEN DecodeBody(p.body)
    ELSE Text(<<>>)

\* the header loop: [raised |-> ..., map |-> name -> value]
EmptyMap == [n \in {} |-> ""]
DictPut(h, n, v) == [x \in DOMAIN h \cup {n} |-> IF x = n THEN v ELSE h[x]]
DictGet(h, n, default) == IF n \in DOMAIN h THEN h[n] ELSE default

\* what the except clause of the header loop does with a header whose name
\* is missing: header['name'] raises again, inside the handler
HandlerOnMissingName(acc) == [raised |-> "KeyError: 'name'", map |-> acc.map]

HeaderStep(acc, header) ==
    IF acc.raised # "" THEN acc
    ELSE IF header.name = Missing THEN HandlerOnMissingName(acc)
    ELSE IF header.value \in {Missing, Undecodable}
    THEN [acc EXCEPT !.map = DictPut(acc.map, header.name, "[Error decoding header]")]
    ELSE [acc EXCEPT !.map = DictPut(acc.map, header.name, header.value)]

RECURSIVE HeaderLoop(_, _, _)
HeaderLoop(hs, k, acc) ==
    IF k > Len(hs) THEN acc ELSE HeaderLoop(hs, k + 1, HeaderStep(acc, hs[k]))

\* one iteration of the listing loop after the detail call has returned.
\* The record keeps id, body, has_attachments, a promoted header with the
\* default '' (from; to, subject, date, cc and bcc are read the same way) and
\* the one with the default 'normal' (importance).
Normalize(m) ==
    LET h == HeaderLoop(m.headers, 1, [raised |-> "", map |-> EmptyMap]) IN
    IF h.raised # ""
    THEN [ok |-> FALSE, exc |-> h.raised]
    ELSE [ok |-> TRUE,
          rec |-> [id              |-> m.id,
                   from            |-> DictGet(h.map, "From", ""),
                   subject         |-> DictGet(h.map, "Subject", ""),
                   importance      |-> DictGet(h.map, "Importance", "normal"),
                   body            |-> ExtractBody(m.payload),
                   has_attachments |-> m.payload.hasParts /\ Len(m.payload.parts) > 0]]

(***************************************************************************)
(* Credentials                                                             *)
(***************************************************************************)
NoneCred      == [kind |-> "none",      tok |-> 0, rt |-> FALSE]
AbsentFile    == [kind |-> "absent",    tok |-> 0, rt |-> FALSE]
TruncatedFile == [kind |-> "truncated", tok |-> 0, rt |-> FALSE]
Cred(t, r)    == [kind |-> "cred", tok |-> t, rt |-> r]

Expired(c) == c.kind = "cred" /\ c.tok \in expiredToks      \* creds.expired
Valid(c)   == c.kind = "cred" /\ c.tok \notin expiredToks   \* creds.valid

\* what the load classifies as, for the record of the invocation
LoadClass(file) ==
    IF file.kind = "absent" THEN "absent"
    ELSE IF file.kind = "none" THEN "none"
    ELSE IF Valid(file) THEN "valid"
    ELSE IF file.rt THEN "expired_rt" ELSE "expired_nort"

\* if os.path.exists('token.pickle'): creds = pickle.load(token)
Loaded(file) == IF file.kind = "absent" THEN NoneCred ELSE file

ServiceOf(t) == IF t \in {"get_calendar_events", "create_calendar_event"}
                THEN "calendar" ELSE "gmail"

\* the branch taken after the load, in get_calendar_service: no else branch
CalendarAfterLoad(c) ==
    IF c.kind = "none" \/ ~Valid(c)
    THEN IF c.kind # "none" /\ Expired(c) /\ c.rt THEN "refresh" ELSE "dump"
    ELSE "build"

\* the branch taken after the load, in get_gmail_service
GmailAfterLoad(c) ==
    IF c.kind = "none" \/ ~Valid(c)
    THEN IF c.kind # "none" /\ Expired(c) /\ c.rt THEN "refresh" ELSE "flow"
    ELSE "build"

AfterLoad(kind, c) == IF kind = "gmail" THEN GmailAfterLoad(c) ELSE CalendarAfterLoad(c)

Refreshed(c, t) == [c EXCEPT !.tok = t]     \* creds.refresh(Request())

\* a dump that leaves a file another writer has filled in alone
DumpedKeepExisting(file, c) == IF file.kind \in {"absent", "truncated"} THEN c ELSE file

\* pickle.dump(creds, token) on the file opened 'wb': the file holds creds
DumpedFile(file, c) == c

(***************************************************************************)
(* Spec: the tool operations, one invocation in flight                     *)
(***************************************************************************)
ListingTools == {"get_inbox_emails", "search_emails", "get_sent_emails"}
Tools == ListingTools \cup {"send_email", "get_calendar_events", "create_calendar_event"}

Ev(op, arg, ok) == [op |-> op, arg |-> arg, ok |-> ok]
NoService == [kind |-> "none", usable |-> FALSE]
NoResult  == [kind |-> "none",  items |-> <<>>, msg |-> ""]
ErrorResult(m) == [kind |-> "error", items |-> <<>>, msg |-> m]
ValueResult(k, items) == [kind |-> k, items |-> items, msg |-> ""]

\* identifier sequences a list call may return: distinct, in any order
IdSeqs == {s \in SeqsUpTo(1..MaxList, MaxList) : \A i, j \in 1..Len(s) : i # j => s[i] # s[j]}

\* attachment paths: path 0 cannot be opened, the others can
Paths == 0..MaxAttach
Readable(p) == p > 0
AttachLists == {s \in SeqsUpTo(Paths, MaxAttach) : \A i, j \in 1..Len(s) : i # j => s[i] # s[j]}

Hdr(n, v) == [name |-> n, value |-> v]
Plain(d)  == [mimeType |-> "text/plain", body |-> [has |-> TRUE, data |-> d]]
Html(d)   == [mimeType |-> "text/html",  body |-> [has |-> TRUE, data |-> d]]
Single(b) == [hasParts |-> FALSE, parts |-> <<>>, hasBody |-> TRUE, body |-> b]
Multi(ps) == [hasParts |-> TRUE, parts |-> ps, hasBody |-> TRUE, body |-> [has |-> FALSE, data |-> <<>>]]

\* what a detail call for `id` may return
DetailInputs(id) ==
    { RawMessage(id, <<Hdr("From", "alice")>>, Single([has |-> TRUE, data |-> DataHi])),
      RawMessage(id, <<Hdr("From", "alice")>>, Multi(<<Html(DataOK), Plain(DataHi)>>)),
      RawMessage(id, <<Hdr("From", Missing)>>, Single([has |-> TRUE, data |-> DataBadPad])),
      RawMessage(id, <<Hdr("From", Undecodable)>>, Single([has |-> FALSE, data |-> <<>>])),
      RawMessage(id, <<Hdr(Missing, "alice")>>, Single([has |-> TRUE, data |-> DataHi])) }

\* calendar events a list call may return, and the record built from each
EventInputs == { <<>>, <<[id |-> 1, hasStart |-> TRUE]>>, <<[id |-> 1, hasStart |-> FALSE]>> }
EventRecords(es) ==
    IF \E k \in 1..Len(es) : ~es[k].hasStart
    THEN [ok |-> FALSE, exc |-> "KeyError: 'start'"]
    ELSE [ok |-> TRUE, recs |-> [k \in 1..Len(es) |-> [id |-> es[k].id]]]

\* handlers that leave a step outside the try, retry a failed detail call,
\* or go on to send after a failed attachment read
HandlerUncaughtAcquire(p) ==
    IF p \in {"load", "refresh", "flow", "build"} THEN "crashed" ELSE "except"
HandlerRetryDetail(p) == IF p = "loop" THEN "loop" ELSE "except"
HandlerSkipUnreadable(p) == IF p = "compose" THEN "send" ELSE "except"

\* where an exception raised at position p goes: every statement of every
\* tool is inside its try, whose only clause is `except Exception`
Handler(p) == "except"

Raise(e) ==
    /\ pc'  = Handler(pc)
    /\ exc' = e

\* the outcomes of a call on the provider
Outcomes(svc) == IF svc.usable THEN {TRUE, FALSE} ELSE {FALSE}

\* the first step of the tool after the service is built
FirstStep(t) ==
    CASE t \in ListingTools           -> "list"
      [] t = "send_email"             -> "compose"
      [] t = "get_calendar_events"    -> "events"
      [] OTHER                        -> "insert"

OtherSpecsIdle == UNCHANGED <<normVars, encVars, raceVars>>

\* the host calls a tool
Invoke(t, atts) ==
    /\ pc = "idle"
    /\ nextTok <= MaxTok
    /\ pc' = "load"
    /\ tool' = t
    /\ attachments' = atts
    /\ creds' = NoneCred
    /\ service' = NoService
    /\ ids' = <<>>
    /\ idx' = 1
    /\ messages' = <<>>
    /\ fetched' = <<>>
    /\ exc' = ""
    /\ result' = NoResult
    /\ log' = <<>>
    /\ UNCHANGED envVars
    /\ OtherSpecsIdle

\* get_*_service: creds = None; load token.pickle if it exists; branch
Load ==
    /\ pc = "load"
    /\ creds' = Loaded(store)
    /\ log' = Append(log, Ev("load", LoadClass(store), TRUE))
    /\ pc' = AfterLoad(ServiceOf(tool), Loaded(store))
    /\ UNCHANGED <<tool, service, ids, idx, messages, fetched, attachments, exc, result>>
    /\ UNCHANGED envVars
    /\ OtherSpecsIdle

\* creds.refresh(Request())
Refresh ==
    /\ pc = "refresh"
    /\ \E ok \in BOOLEAN :
         /\ log' = Append(log, Ev("refresh", 0, ok))
         /\ IF ok
            THEN /\ creds' = Refreshed(creds, nextTok)
                 /\ nextTok' = nextTok + 1
                 /\ pc' = "dump"
                 /\ exc' = exc
            ELSE /\ Raise("RefreshError")
                 /\ UNCHANGED <<creds, nextTok>>
    /\ UNCHANGED <<tool, service, ids, idx, messages, fetched, attachments, result>>
    /\ UNCHANGED <<store, expiredToks>>
    /\ OtherSpecsIdle

\* InstalledAppFlow.from_client_secrets_file(...).run_local_server(port=0)
Flow ==
    /\ pc = "flow"
    /\ \E ok \in BOOLEAN, r \in BOOLEAN :
         /\ log' = Append(log, Ev("flow", 0, ok))
         /\ IF ok
            THEN /\ creds' = Cred(nextTok, r)
                 /\ nextTok' = nextTok + 1
                 /\ pc' = "dump"
                 /\ exc' = exc
            ELSE /\ Raise("AuthError")
                 /\ UNCHANGED <<creds, nextTok>>
    /\ UNCHANGED <<tool, service, ids, idx, messages, fetched, attachments, result>>
    /\ UNCHANGED <<store, expiredToks>>
    /\ OtherSpecsIdle

\* with open('token.pickle', 'wb') as token: pickle.dump(creds, token)
Dump ==
    /\ pc = "dump"
    /\ store' = DumpedFile(TruncatedFile, creds)
    /\ log' = Append(log, Ev("write", 0, TRUE))
    /\ pc' = "build"
    /\ UNCHANGED <<tool, creds, service, ids, idx, messages, fetched, attachments, exc, result>>
    /\ UNCHANGED <<expiredToks, nextTok>>
    /\ OtherSpecsIdle

\* build(name, version, credentials=creds); with credentials=None the
\* library looks for ambient default credentials and raises if there are none
Build ==
    /\ pc = "build"
    /\ \E ok \in BOOLEAN :
         /\ log' = Append(log, Ev("build", 0, ok))
         /\ IF ok
            THEN /\ service' = [kind |-> ServiceOf(tool),
                                usable |-> creds.kind = "none" \/ Valid(creds)]
                 /\ pc' = FirstStep(tool)
                 /\ exc' = exc
            ELSE /\ Raise(IF creds.kind = "none" THEN "DefaultCredentialsError" ELSE "HttpError")
                 /\ UNCHANGED service
    /\ UNCHANGED <<tool, creds, ids, idx, messages, fetched, attachments, result>>
    /\ UNCHANGED envVars
    /\ OtherSpecsIdle

\* service.users().messages().list(...).execute()
List ==
    /\ pc = "list"
    /\ \E ok \in Outcomes(service) :
         /\ log' = Append(log, Ev("list", 0, ok))
         /\ IF ok
            THEN /\ \E s \in IdSeqs : ids' = s
                 /\ pc' = "loop"
                 /\ exc' = exc
            ELSE /\ Raise("HttpError")
                 /\ UNCHANGED ids
    /\ UNCHANGED <<tool, creds, service, idx, messages, fetched, attachments, result>>
    /\ UNCHANGED envVars
    /\ OtherSpecsIdle

\* one iteration of `for msg in result.get('messages', [])`: the detail call,
\* the header loop, the body extraction and messages.append
Get ==
    /\ pc = "loop"
    /\ idx <= Len(ids)
    /\ \E ok \in Outcomes(service) :
         /\ log' = Append(log, Ev("get", ids[idx], ok))
         /\ IF ok
            THEN \E m \in DetailInputs(ids[idx]) :
                   LET n == Normalize(m) IN
                   /\ fetched' = Append(fetched, m)
                   /\ IF n.ok
                      THEN /\ messages' = Append(messages, n.rec)
                           /\ idx' = idx + 1
                           /\ UNCHANGED <<pc, exc>>
                      ELSE /\ Raise(n.exc)
                           /\ UNCHANGED <<messages, idx>>
            ELSE /\ Raise("HttpError")
                 /\ UNCHANGED <<messages, idx, fetched>>
    /\ UNCHANGED <<tool, creds, service, ids, attachments, result>>
    /\ UNCHANGED envVars
    /\ OtherSpecsIdle

\* return messages
ReturnList ==
    /\ pc = "loop"
    /\ idx > Len(ids)
    /\ result' = ValueResult("list", messages)
    /\ pc' = "idle"
    /\ UNCHANGED <<tool, creds, service, ids, idx, messages, fetched, attachments, exc, log>>
    /\ UNCHANGED envVars
    /\ OtherSpecsIdle

\* create_message_with_attachments: one pass of `for filepath in attachments`
ReadAttachment ==
    /\ pc = "compose"
    /\ idx <= Len(attachments)
    /\ log' = Append(log, Ev("read", attachments[idx], Readable(attachments[idx])))
    /\ IF Readable(attachments[idx])
       THEN /\ idx' = idx + 1
            /\ UNCHANGED <<pc, exc>>
       ELSE /\ Raise("FileNotFoundError")
            /\ UNCHANGED idx
    /\ UNCHANGED <<tool, creds, service, ids, messages, fetched, attachments, result>>
    /\ UNCHANGED envVars
    /\ OtherSpecsIdle

\* create_message_with_attachments returns the envelope
Serialize ==
    /\ pc = "compose"
    /\ idx > Len(attachments)
    /\ pc' = "send"
    /\ UNCHANGED <<tool, creds, service, ids, idx, messages, fetched, attachments, exc, result, log>>
    /\ UNCHANGED envVars
    /\ OtherSpecsIdle

\* service.users().messages().send(userId='me', body=message).execute()
Send ==
    /\ pc = "send"
    /\ \E ok \in Outcomes(service) :
         /\ log' = Append(log, Ev("send", 0, ok))
         /\ IF ok
            THEN /\ result' = ValueResult("sent", <<>>)
                 /\ pc' = "idle"
                 /\ exc' = exc
            ELSE /\ Raise("HttpError")
                 /\ UNCHANGED result
    /\ UNCHANGED <<tool, creds, service, ids, idx, messages, fetched, attachments>>
    /\ UNCHANGED envVars
    /\ OtherSpecsIdle

\* service.events().list(...).execute() and the comprehension over its items
Events ==
    /\ pc = "events"
    /\ \E ok \in Outcomes(service) :
         /\ log' = Append(log, Ev("events", 0, ok))
         /\ IF ok
            THEN \E es \in EventInputs :
                   LET r == EventRecords(es) IN
                   IF r.ok
                   THEN /\ result' = ValueResult("events", r.recs)
                        /\ pc' = "idle"
                        /\ exc' = exc
                   ELSE /\ Raise(r.exc)
                        /\ UNCHANGED result
            ELSE /\ Raise("HttpError")
                 /\ UNCHANGED result
    /\ UNCHANGED <<tool, creds, service, ids, idx, messages, fetched, attachments>>
    /\ UNCHANGED envVars
    /\ OtherSpecsIdle

\* service.events().insert(...).execute()
Insert ==
    /\ pc = "insert"
    /\ \E ok \in Outcomes(service) :
         /\ log' = Append(log, Ev("insert", 0, ok))
         /\ IF ok
            THEN /\ result' = ValueResult("created", <<>>)
                 /\ pc' = "idle"
                 /\ exc' = exc
            ELSE /\ Raise("HttpError")
                 /\ UNCHANGED result
    /\ UNCHANGED <<tool, creds, service, ids, idx, messages, fetched, attachments>>
    /\ UNCHANGED envVars
    /\ OtherSpecsIdle

\* except Exception as e: return {'error': str(e)}
Except ==
    /\ pc = "except"
    /\ result' = ErrorResult(exc)
    /\ pc' = "idle"
    /\ UNCHANGED <<tool, creds, service, ids, idx, messages, fetched, attachments, exc, log>>
    /\ UNCHANGED envVars
    /\ OtherSpecsIdle

\* time passes between invocations: the persisted access token expires
Expire ==
    /\ pc = "idle"
    /\ store.kind = "cred"
    /\ store.tok \notin expiredToks
    /\ expiredToks' = expiredToks \cup {store.tok}
    /\ UNCHANGED <<store, nextTok>>
    /\ UNCHANGED mainVars
    /\ OtherSpecsIdle

NormIdle == nmsg = RawMessage(0, <<>>, Single([has |-> FALSE, data |-> <<>>])) /\ nrec = [ok |-> FALSE, exc |-> ""] /\ npc = "off"
EncIdle  == eto = <<>> /\ esubject = <<>> /\ ebody = <<>> /\ efiles = <<>> /\ eraw = [raw |-> <<>>] /\ epc = "off"
RaceIdle == rpc = <<>> /\ rkind = <<>> /\ rcreds = <<>> /\ rloaded = <<>> /\ lastWriter = 0
MainIdle ==
    /\ pc = "idle" /\ tool = "none" /\ creds = NoneCred /\ service = NoService
    /\ ids = <<>> /\ idx = 1 /\ messages = <<>> /\ fetched = <<>> /\ attachments = <<>>
    /\ exc = "" /\ result = NoResult /\ log = <<>>

\* the token file when the process starts: none yet, or one left by an
\* earlier run
InitEnv ==
    /\ store \in {AbsentFile, Cred(0, TRUE), Cred(0, FALSE)}
    /\ expiredToks = {}
    /\ nextTok = 1

Init == InitEnv /\ MainIdle /\ NormIdle /\ EncIdle /\ RaceIdle

Next ==
    \/ \E t \in Tools \ {"send_email"} : Invoke(t, <<>>)
    \/ \E atts \in AttachLists : Invoke("send_email", atts)
    \/ Load
    \/ Refresh
    \/ Flow
    \/ Dump
    \/ Build
    \/ List
    \/ Get
    \/ ReturnList
    \/ ReadAttachment
    \/ Serialize
    \/ Send
    \/ Events
    \/ Insert
    \/ Except
    \/ Expire

Spec == Init /\ [][Next]_vars

(***************************************************************************)
(* Properties of Spec                                                      *)
(***************************************************************************)
ProviderOps == {"refresh", "flow", "build", "list", "get", "send", "events", "insert"}
Returned    == pc = "idle" /\ tool # "none"
FailedAt    == {k \in 1..Len(log) : ~log[k].ok}
At(op)      == {k \in 1..Len(log) : log[k].op = op}
ArgsOf(op)  == LET es == SelectSeq(log, LAMBDA e : e.op = op)
               IN  [i \in 1..Len(es) |-> es[i].arg]

\* C1: every tool invocation ends by returning a value, never by an escaping
\* exception; when a step of it failed (credential acquisition, a provider
\* call, composition, record construction) the value is {error: message};
\* and the server can then take the next invocation.
C1_AlwaysReturnsValue ==
    /\ pc # "crashed"
    /\ Returned => result.kind \in {"list", "sent", "events", "created", "error"}
    /\ (Returned /\ (FailedAt # {} \/ exc # "")) => result = ErrorResult(exc)
    /\ (Returned /\ nextTok <= MaxTok) => ENABLED (\E t \in ListingTools : Invoke(t, <<>>))

C1_Witness ==
    /\ Returned
    /\ exc = "RefreshError"
    /\ result.kind = "error"

\* C5: no retries: a failed provider call is the last call of its invocation
\* (no call follows it, so it is not issued again and no later detail call is
\* made), and the invocation returns the {error} value alone.
C5_NoRetry ==
    /\ \A k \in FailedAt : log[k].op \in ProviderOps => k = Len(log)
    /\ \A k \in FailedAt : (log[k].op \in ProviderOps /\ Returned) =>
            (result.kind = "error" /\ result.items = <<>>)

C5_Witness ==
    /\ Returned
    /\ tool \in ListingTools
    /\ Len(messages) = 1
    /\ Len(ids) = 2
    /\ log[Len(log)].op = "get" /\ ~log[Len(log)].ok
    /\ result.kind = "error"

\* C10: send_email composes before it submits: the send call is issued at
\* most once, only after every attachment has been read in input order; if
\* some attachment cannot be read no send call is issued and the result is
\* {error}.
C10_ComposeBeforeSend ==
    /\ Cardinality(At("send")) <= 1
    /\ \A k \in At("send") :
          /\ ArgsOf("read") = attachments
          /\ \A j \in At("read") : j < k /\ log[j].ok
    /\ (tool = "send_email" /\ \E i \in 1..Len(attachments) : ~Readable(attachments[i])) =>
          /\ At("send") = {}
          /\ Returned => result.kind = "error"

C10_Witness ==
    /\ Returned
    /\ tool = "send_email"
    /\ Len(attachments) = 2
    /\ Readable(attachments[1]) /\ ~Readable(attachments[2])
    /\ ArgsOf("read") = attachments
    /\ result.kind = "error"

\* C2: the acquisition at the start of every invocation, mail and calendar
\* alike: a persisted credential that is expired with a refresh token is
\* refreshed and written back with no interactive flow; with no persisted
\* credential the interactive flow runs exactly once before the client is
\* built.
C2_AcquisitionRefreshOrFlow ==
    pc = "build" =>
        /\ log[1].arg = "expired_rt" =>
              /\ Len(log) = 3
              /\ log[2] = Ev("refresh", 0, TRUE)
              /\ log[3].op = "write"
        /\ log[1].arg = "absent" => Cardinality(At("flow")) = 1

\* C3: the token file changes only as the result of a successful refresh or
\* a successful interactive authorization and is written after each of
\* them; a load of a valid credential leaves it alone; what is written is
\* never a null credential nor an expired, unrefreshed one.
C3_StoreWrittenOnlyAfterGrant ==
    /\ \A k \in At("write") :
          /\ k > 1
          /\ log[k-1].op \in {"refresh", "flow"}
          /\ log[k-1].ok
    /\ \A k \in At("refresh") \cup At("flow") :
          log[k].ok => IF k = Len(log) THEN pc = "dump" ELSE log[k+1].op = "write"
    /\ (Len(log) >= 1 /\ log[1].arg = "valid") => At("write") = {}
    /\ store.kind # "none"

\* C4: a listing whose provider calls all succeed issues one list call and
\* then one detail call per listed identifier, in the list's order, and
\* returns exactly one record per identifier, in that order.
C4_ListingOneRecordPerId ==
    (Returned /\ tool \in ListingTools /\ At("list") # {} /\ FailedAt = {}) =>
        /\ Cardinality(At("list")) = 1
        /\ \A k \in At("get") : \A j \in At("list") : j < k
        /\ ArgsOf("get") = ids
        /\ result.kind = "list"
        /\ [i \in 1..Len(result.items) |-> result.items[i].id] = ids

\* a body payload that is missing or not valid base64url; a header that is
\* malformed
BodyMalformed(m) ==
    LET b == m.payload.body IN ~b.has \/ b.data \in {DataBadPad, DataJunk}
HeaderMalformed(h) == h.name = Missing \/ h.value \in {Missing, Undecodable}

\* C6: in a listing, a decode failure inside a fetched message stays inside
\* that message: a missing or invalid body payload, or a malformed header
\* (value undecodable, name or value absent) turns only that field into a
\* placeholder, and the listing still returns a record for every identifier.
C6_DecodeFailureStaysLocal ==
    (Returned /\ tool \in ListingTools /\ FailedAt = {}) =>
        /\ result.kind = "list"
        /\ Len(result.items) = Len(fetched)
        /\ \A i \in 1..Len(fetched) :
              /\ (~fetched[i].payload.hasParts /\ BodyMalformed(fetched[i]))
                     => result.items[i].body.kind = "placeholder"
              /\ (\E j \in 1..Len(fetched[i].headers) : HeaderMalformed(fetched[i].headers[j]))
                     => result.items[i].from = "[Error decoding header]"

(***************************************************************************)
(* SpecNorm: the normalisation of one fetched message                      *)
(***************************************************************************)
EnvIdle == store = AbsentFile /\ expiredToks = {} /\ nextTok = 1

InitNorm ==
    /\ EnvIdle /\ MainIdle /\ EncIdle /\ RaceIdle
    /\ nmsg \in {RawMessage(1, hs, p) : hs \in SeqsUpTo(HeaderSet, MaxHeaders),
                                        p \in PayloadSet(MaxParts)}
    /\ nrec = [ok |-> FALSE, exc |-> ""]
    /\ npc = "in"

NormalizeMessage ==
    /\ npc = "in"
    /\ nrec' = Normalize(nmsg)
    /\ npc' = "out"
    /\ UNCHANGED <<nmsg, envVars, mainVars, encVars, raceVars>>

NextNorm == NormalizeMessage

SpecNorm == InitNorm /\ [][NextNorm]_vars

PlainAt(ps)    == {k \in 1..Len(ps) : ps[k].mimeType = "text/plain"}
FirstPlain(ps) == CHOOSE k \in PlainAt(ps) : \A j \in PlainAt(ps) : k <= j
Decodable(b)   == b.has /\ urlsafe_b64decode(b.data).ok
Content(b)     == Utf8Replace(urlsafe_b64decode(b.data).bytes)

\* C7: when the payload has a parts list whose first text/plain part is at
\* index k, the record's body is the decoded content of part k, whatever
\* stands before or after it; with no text/plain part in the list the body
\* is empty; the top-level body payload is decoded only when the payload has
\* no parts list.
C7_FirstPlainTextPart ==
    (npc = "out" /\ nrec.ok) =>
        LET p == nmsg.payload
            b == nrec.rec.body
        IN  /\ (p.hasParts /\ PlainAt(p.parts) # {}) =>
                  LET part == p.parts[FirstPlain(p.parts)] IN
                  IF Decodable(part.body)
                  THEN b.kind = "text" /\ b.text = Content(part.body)
                  ELSE b.kind = "placeholder"
            /\ (p.hasParts /\ PlainAt(p.parts) = {}) => b = Text(<<>>)
            /\ (~p.hasParts /\ p.hasBody /\ Decodable(p.body)) =>
                  (b.kind = "text" /\ b.text = Content(p.body))

C7_Witness ==
    /\ npc = "out" /\ nrec.ok
    /\ Len(nmsg.payload.parts) = 2
    /\ nmsg.payload.parts[1].mimeType = "text/plain"
    /\ nmsg.payload.parts[2].mimeType = "text/plain"
    /\ nmsg.payload.parts[1].body.data = DataHi
    /\ nmsg.payload.parts[2].body.data = DataOK
    /\ nmsg.payload.body.has
    /\ nrec.rec.body.text = <<72, 105>>

(***************************************************************************)
(* SpecEnc: create_message_with_attachments on readable files              *)
(***************************************************************************)
\* the ASCII letter of a base64 character (standard alphabet, as written by
\* encoders.encode_base64 into an attachment part)
B64Ascii(c) ==
    IF c < 26 THEN 65 + c
    ELSE IF c < 52 THEN 97 + (c - 26)
    ELSE IF c < 62 THEN 48 + (c - 52)
    ELSE IF c = 62 THEN 43
    ELSE IF c = 63 THEN 47
    ELSE 61

AsciiOf(cs) == [i \in 1..Len(cs) |-> B64Ascii(cs[i])]

\* one header line "name: value\n"
Field(name, value) == name \o <<58, 32>> \o value \o <<10>>

\* one attachment part: the boundary, then the base64 text of the file
AttachmentPart(content) == <<45, 45, 10>> \o AsciiOf(B2A(content, 1)) \o <<10>>

RECURSIVE AttachmentParts(_, _)
AttachmentParts(files, k) ==
    IF k > Len(files) THEN <<>>
    ELSE AttachmentPart(files[k]) \o AttachmentParts(files, k + 1)

\* message.as_bytes(): the headers to, from, subject, the text part and the
\* attachment parts in input order
AsBytes(to, subject, body, files) ==
    Field(<<116, 111>>, to) \o Field(<<102, 114, 111, 109>>, <<109, 101>>)
    \o Field(<<115, 117, 98, 106, 101, 99, 116>>, subject)
    \o <<45, 45, 10>> \o body \o <<10>>
    \o AttachmentParts(files, 1)

\* return {'raw': base64.urlsafe_b64encode(message.as_bytes()).decode()}
create_message_with_attachments(to, subject, body, files) ==
    [raw |-> urlsafe_b64encode(AsBytes(to, subject, body, files))]

ToSet      == {<<97>>, <<97, 64, 98>>}
SubjectSet == {<<>>, <<83>>}
BodyTexts  == {<<>>, <<72>>, <<72, 105>>}
FileSet    == {<<>>, <<1>>, <<1, 255>>}

InitEnc ==
    /\ EnvIdle /\ MainIdle /\ NormIdle /\ RaceIdle
    /\ eto \in ToSet
    /\ esubject \in SubjectSet
    /\ ebody \in BodyTexts
    /\ efiles \in SeqsUpTo(FileSet, MaxAttach)
    /\ eraw = [raw |-> <<>>]
    /\ epc = "in"

Compose ==
    /\ epc = "in"
    /\ eraw' = create_message_with_attachments(eto, esubject, ebody, efiles)
    /\ epc' = "out"
    /\ UNCHANGED <<eto, esubject, ebody, efiles, envVars, mainVars, normVars, raceVars>>

NextEnc == Compose

SpecEnc == InitEnc /\ [][NextEnc]_vars

Serialized == AsBytes(eto, esubject, ebody, efiles)
PadCount(n) == (3 - (n % 3)) % 3

\* C9 as stated: raw never contains the padding character '='.
C9_RawHasNoPadding ==
    epc = "out" => \A i \in 1..Len(eraw.raw) : eraw.raw[i] # PAD

\* C9 as amended: the envelope has the single field raw, the padded
\* base64url encoding of the serialized message: four characters for every
\* three bytes, the last group filled with '=', so raw contains '=' exactly
\* when the byte length is not a multiple of 3; decoding each group of
\* four characters gives the group's bytes of the serialized message back.
C9_RawIsPaddedBase64Url ==
    epc = "out" =>
        LET n == Len(Serialized)
            r == eraw.raw
        IN  /\ DOMAIN eraw = {"raw"}
            /\ Len(r) = 4 * ((n + 2) \div 3)
            /\ \A i \in 1..Len(r) : (r[i] = PAD) <=> (i > Len(r) - PadCount(n))
            /\ (\E i \in 1..Len(r) : r[i] = PAD) <=> (n % 3 # 0)
            /\ \A g \in 1..(Len(r) \div 4) :
                  urlsafe_b64decode(SubSeq(r, 4 * g - 3, 4 * g))
                      = OkBytes(SubSeq(Serialized, 3 * g - 2, IF 3 * g < n THEN 3 * g ELSE n))

C9_Witness ==
    /\ epc = "out"
    /\ Len(Serialized) % 3 = 1
    /\ Len(efiles) >= 1
    /\ eraw.raw[Len(eraw.raw)] = PAD
    /\ eraw.raw[Len(eraw.raw) - 1] = PAD

(***************************************************************************)
(* SpecRace: two invocations acquire credentials concurrently.  Each runs  *)
(* get_gmail_service or get_calendar_service up to the build of its        *)
(* client; the steps of the two interleave freely, and opening the token   *)
(* file for writing (which truncates it) is a step of its own.             *)
(***************************************************************************)
Procs == {1, 2}

\* the position after the load, in the steps of this specification
RaceAfterLoad(kind, c) ==
    LET n == AfterLoad(kind, c) IN
    IF n = "build" THEN "done" ELSE IF n = "dump" THEN "open" ELSE n

InitRace ==
    /\ store \in {AbsentFile, Cred(0, TRUE), Cred(0, FALSE)}
    /\ expiredToks \in {{}, {0}}
    /\ nextTok = 1
    /\ MainIdle /\ NormIdle /\ EncIdle
    /\ rpc = [p \in Procs |-> "load"]
    /\ rkind \in [Procs -> {"gmail", "calendar"}]
    /\ rcreds = [p \in Procs |-> NoneCred]
    /\ rloaded = [p \in Procs |-> "unloaded"]
    /\ lastWriter = 0

RaceFrame == UNCHANGED <<mainVars, normVars, encVars, rkind>>

\* the load; pickle.load on a file another invocation has just truncated
\* raises EOFError
RLoad(p) ==
    /\ rpc[p] = "load"
    /\ IF store.kind = "truncated"
       THEN /\ rpc' = [rpc EXCEPT ![p] = "error_load"]
            /\ UNCHANGED <<rcreds, rloaded>>
       ELSE /\ rcreds' = [rcreds EXCEPT ![p] = Loaded(store)]
            /\ rloaded' = [rloaded EXCEPT ![p] = LoadClass(store)]
            /\ rpc' = [rpc EXCEPT ![p] = RaceAfterLoad(rkind[p], Loaded(store))]
    /\ UNCHANGED <<envVars, lastWriter>>
    /\ RaceFrame

RRefresh(p) ==
    /\ rpc[p] = "refresh"
    /\ \E ok \in BOOLEAN :
         IF ok
         THEN /\ rcreds' = [rcreds EXCEPT ![p] = Refreshed(rcreds[p], nextTok)]
              /\ nextTok' = nextTok + 1
              /\ rpc' = [rpc EXCEPT ![p] = "open"]
         ELSE /\ rpc' = [rpc EXCEPT ![p] = "error_refresh"]
              /\ UNCHANGED <<rcreds, nextTok>>
    /\ UNCHANGED <<store, expiredToks, rloaded, lastWriter>>
    /\ RaceFrame

RFlow(p) ==
    /\ rpc[p] = "flow"
    /\ \E ok \in BOOLEAN, r \in BOOLEAN :
         IF ok
         THEN /\ rcreds' = [rcreds EXCEPT ![p] = Cred(nextTok, r)]
              /\ nextTok' = nextTok + 1
              /\ rpc' = [rpc EXCEPT ![p] = "open"]
         ELSE /\ rpc' = [rpc EXCEPT ![p] = "error_flow"]
              /\ UNCHANGED <<rcreds, nextTok>>
    /\ UNCHANGED <<store, expiredToks, rloaded, lastWriter>>
    /\ RaceFrame

\* open('token.pickle', 'wb')
ROpen(p) ==
    /\ rpc[p] = "open"
    /\ store' = TruncatedFile
    /\ rpc' = [rpc EXCEPT ![p] = "dump"]
    /\ UNCHANGED <<expiredToks, nextTok, rcreds, rloaded, lastWriter>>
    /\ RaceFrame

\* pickle.dump(creds, token) and the close of the file
RDump(p) ==
    /\ rpc[p] = "dump"
    /\ store' = DumpedFile(store, rcreds[p])
    /\ lastWriter' = p
    /\ rpc' = [rpc EXCEPT ![p] = "done"]
    /\ UNCHANGED <<expiredToks, nextTok, rcreds, rloaded>>
    /\ RaceFrame

NextRace == \E p \in Procs : RLoad(p) \/ RRefresh(p) \/ RFlow(p) \/ ROpen(p) \/ RDump(p)

SpecRace == InitRace /\ [][NextRace]_vars

Finished(p) == rpc[p] \in {"done", "error_load", "error_refresh", "error_flow"}

====
